---- MODULE Spec2Model ----
(***************************************************************************)
(* A model of models/eff_acat.py: the encoder/decoder transformer with a   *)
(* pluggable attention strategy and the optional stochastic process model. *)
(*                                                                         *)
(* Tensors are modelled by their shape and by the symbolic expression that *)
(* computes their value: a term is a tuple whose head is the name of the   *)
(* operation and whose tail holds the operand terms.  A term that uses an  *)
(* operand several times binds it once: <<"let", t, body>> is body with    *)
(* every <<"$">> standing for t.  Two tensors are bit-identical exactly    *)
(* when their terms are equal; values drawn from the global random         *)
(* generator at different positions of its stream are different terms.     *)
(***************************************************************************)
EXTENDS Integers, Sequences, FiniteSets, TLC

VARIABLES rng, models, last, obj, ret

vars == <<rng, models, last, obj, ret>>

(***************************************************************************)
(* Bounds of the model.                                                    *)
(***************************************************************************)
MaxB == 2          \* batch sizes 1..MaxB
MaxL == 2          \* time lengths 1..MaxL (plus the lengths around max_len)
MaxLayers == 2     \* n_layers 1..MaxLayers
MaxSeed == 2       \* seeds 1..MaxSeed
MaxPos == 14       \* cap on the position of the global generator's stream
MaxDraws == 4      \* cap on the noise drawn beyond what the constructors draw
MaxTable == 2      \* small max_len values 1..MaxTable of a stand-alone table
DModel == 2        \* the model width d_model of every configuration

(***************************************************************************)
(* Values.                                                                 *)
(***************************************************************************)
NoneT == [cls |-> "None"]

Tensor(shape, val) == [cls |-> "Tensor", shape |-> shape, val |-> val]

\* F applied to the value of e, which is computed once.
With(e, F(_)) == CHOOSE r \in {F(v) : v \in {e}} : TRUE

\* The bound operand of a term, and a body closed over the tensor x.
Var(x) == Tensor(x.shape, <<"$">>)

Let(x, body) == Tensor(body.shape, <<"let", x.val, body.val>>)

Max(a, b) == IF a >= b THEN a ELSE b

Min(a, b) == IF a <= b THEN a ELSE b

\* The global random state: torch's generator (its seed and how many draws
\* were taken since seeding), Python's random and numpy's generator.
RngInit == [torch |-> [seed |-> 0, pos |-> 0], random |-> 0, numpy |-> 0]

\* The next value of torch's generator, and the generator after n draws.
Draw(r) == <<"rand", r.torch.seed, r.torch.pos>>

Adv(r, n) == [r EXCEPT !.torch.pos = @ + n]

\* torch.manual_seed(seed); random.seed(seed); np.random.seed(seed)
manual_seed(r, seed) ==
    [torch |-> [seed |-> seed, pos |-> 0], random |-> seed, numpy |-> seed]

(***************************************************************************)
(* get_attn_subsequent_mask                                                *)
(***************************************************************************)
\* np.ones(shape) for a three-dimensional shape, as nested tuples.
ones(shape) ==
    [b \in 1..shape[1] |-> [i \in 1..shape[2] |-> [j \in 1..shape[3] |-> 1]]]

\* np.triu(m, k): keeps the entries of the last two axes with j - i >= k.
triu(m, k) ==
    [b \in DOMAIN m |->
        [i \in DOMAIN m[b] |->
            [j \in DOMAIN m[b][i] |-> IF j - i >= k THEN m[b][i][j] ELSE 0]]]

\* The variant with k = 0, the diagonal masked too.
get_attn_subsequent_mask_diag(seq) ==
    LET attn_shape == <<seq.shape[1], seq.shape[2], seq.shape[2]>>
    IN  Tensor(attn_shape, triu(ones(attn_shape), 0))

get_attn_subsequent_mask(seq) ==
    LET attn_shape == <<seq.shape[1], seq.shape[2], seq.shape[2]>>
    IN  Tensor(attn_shape, triu(ones(attn_shape), 1))

(***************************************************************************)
(* PositionalEncoding                                                      *)
(***************************************************************************)
max_len == 1000

PositionalEncoding_init(d_hid, maxlen) ==
    [cls |-> "PositionalEncoding", d_hid |-> d_hid, max_len |-> maxlen]

\* Broadcasting of one axis: equal sizes, or one of them 1.
Broadcastable(a, b) == a = b \/ a = 1 \/ b = 1

\* X + self.P[:, :X.shape[1], :]: the slice clamps at the table's length,
\* the addition broadcasts (1, rows, d_hid) against (B, T, D) or raises.
\* out.val names the table rows [0, rows) that are added.
PositionalEncoding_forward(pe, X) ==
    LET rows == Min(X.shape[2], pe.max_len)
    IN  IF Broadcastable(X.shape[2], rows) /\ Broadcastable(X.shape[3], pe.d_hid)
        THEN [err |-> "",
              out |-> Tensor(<<X.shape[1], Max(X.shape[2], rows),
                               Max(X.shape[3], pe.d_hid)>>,
                             <<"add", X.val, <<"P", 0, rows>>>>)]
        ELSE [err |-> "RuntimeError", out |-> NoneT]

(***************************************************************************)
(* MultiHeadAttention                                                      *)
(***************************************************************************)
\* The attention tags of this model.  The first five are the literals the
\* dispatch compares with; "autoformer" stands for the tag of the
\* auto-correlation strategy, which the dispatch reaches by its else branch;
\* "foo" is a tag of no strategy.
SupportedTags ==
    {"ACAT", "KittyCat", "basic_attn", "LogTrans", "informer", "autoformer"}

Tags == SupportedTags \cup {"foo"}

\* "KittyCat" in attn_type, over the tags of the model.
ContainsKittyCat(tag) == tag = "KittyCat"

\* The strategy the if/elif chain of forward constructs and calls.
Dispatch(attn_type) ==
    IF attn_type = "ACAT" THEN "ACAT"
    ELSE IF ContainsKittyCat(attn_type) THEN "KittyCatConv"
    ELSE IF attn_type = "basic_attn" THEN "BasicAttn"
    ELSE IF attn_type = "LogTrans" THEN "LogTrans"
    ELSE IF attn_type = "informer" THEN "ProbAttention"
    ELSE "AutoCorrelation"

\* __init__ stores its arguments and draws the four projections; it does
\* not look at attn_type.
MultiHeadAttention_init(r, attn_type, seed) ==
    [obj |-> [cls |-> "MultiHeadAttention", w |-> Draw(r),
              attn_type |-> attn_type, seed |-> seed],
     rng |-> Adv(r, 1)]

\* The strategy's (context, attn) as the interface gives them: functions of
\* the head-split query, key, value, of the mask and of the seed the
\* strategy is constructed with (AutoCorrelation is constructed with none).
Strategy(name, seed, q_s, k_s, v_s, attn_mask) ==
    LET m == IF attn_mask.cls = "None" THEN <<"None">> ELSE <<"mask", attn_mask.val>>
    IN  [context |-> <<name, "context", seed, q_s, k_s, v_s, m>>,
         attn |-> <<name, "attn", seed, q_s, k_s, v_s, m>>]

\* forward(Q, K, V, attn_mask): output has the query's batch and time and
\* the model width; call records what the strategy was called with.
MultiHeadAttention_forward(mha, site, Q, K, V, attn_mask) ==
    With(Dispatch(mha.attn_type), LAMBDA name :
    With(Strategy(name, IF name = "AutoCorrelation" THEN 0 ELSE mha.seed,
                  <<"WQ", mha.w, Q.val>>, <<"WK", mha.w, K.val>>,
                  <<"WV", mha.w, V.val>>, attn_mask), LAMBDA s :
        [out |-> Tensor(<<Q.shape[1], Q.shape[2], Q.shape[3]>>,
                        <<"fc", mha.w, s.context>>),
         attn |-> Tensor(<<Q.shape[1], Q.shape[2], K.shape[2]>>, s.attn),
         call |-> [site |-> site, w |-> mha.w, attn_type |-> mha.attn_type,
                   strategy |-> name, mask |-> attn_mask]]))

(***************************************************************************)
(* PoswiseFeedForwardNet, EncoderLayer, DecoderLayer                       *)
(***************************************************************************)
PoswiseFeedForwardNet_init(r) ==
    [obj |-> [cls |-> "PoswiseFeedForwardNet", w |-> Draw(r)], rng |-> Adv(r, 1)]

PoswiseFeedForwardNet_forward(ffn, inputs) ==
    Tensor(inputs.shape, <<"w_2", ffn.w, <<"relu", <<"w_1", ffn.w, inputs.val>>>>>>)

\* nn.LayerNorm over the last axis of a + b.
AddNorm(a, b) == Tensor(a.shape, <<"layer_norm", <<"add", a.val, b.val>>>>)

EncoderLayer_init(r, attn_type, seed) ==
    With(MultiHeadAttention_init(r, attn_type, seed), LAMBDA a :
    With(PoswiseFeedForwardNet_init(a.rng), LAMBDA f :
        [obj |-> [cls |-> "EncoderLayer", enc_self_attn |-> a.obj, pos_ffn |-> f.obj],
         rng |-> f.rng]))

EncoderLayer_forward(layer, enc_inputs, enc_self_attn_mask) ==
    With(Var(enc_inputs), LAMBDA x :
    With(MultiHeadAttention_forward(layer.enc_self_attn, "enc_self_attn",
                                    x, x, x, enc_self_attn_mask), LAMBDA a :
    With(Let(enc_inputs, AddNorm(a.out, x)), LAMBDA out :
    With(Var(out), LAMBDA o :
    With(PoswiseFeedForwardNet_forward(layer.pos_ffn, o), LAMBDA out_2 :
        [out |-> Let(out, AddNorm(out_2, o)),
         attn |-> Let(enc_inputs, a.attn),
         calls |-> <<a.call>>])))))

DecoderLayer_init(r, attn_type, seed) ==
    With(MultiHeadAttention_init(r, attn_type, seed), LAMBDA a :
    With(MultiHeadAttention_init(a.rng, attn_type, seed), LAMBDA c :
    With(PoswiseFeedForwardNet_init(c.rng), LAMBDA f :
        [obj |-> [cls |-> "DecoderLayer", dec_self_attn |-> a.obj,
                  dec_enc_attn |-> c.obj, pos_ffn |-> f.obj],
         rng |-> f.rng])))

\* The layer with the self-attention mask handed to the cross-attention too.
DecoderLayer_forward_maskedcross(layer, dec_inputs, enc_outputs, dec_self_attn_mask, dec_enc_attn_mask) ==
    With(Var(dec_inputs), LAMBDA x :
    With(MultiHeadAttention_forward(layer.dec_self_attn, "dec_self_attn",
                                    x, x, x, dec_self_attn_mask), LAMBDA a :
    With(Let(dec_inputs, AddNorm(x, a.out)), LAMBDA out :
    With(Var(out), LAMBDA o :
    With(MultiHeadAttention_forward(layer.dec_enc_attn, "dec_enc_attn",
                                    o, enc_outputs, enc_outputs,
                                    dec_self_attn_mask), LAMBDA c :
    With(Let(out, AddNorm(o, c.out)), LAMBDA out2 :
    With(Var(out2), LAMBDA o2 :
    With(PoswiseFeedForwardNet_forward(layer.pos_ffn, o2), LAMBDA out3 :
        [out |-> Let(out2, AddNorm(o2, out3)),
         dec_self_attn |-> Let(dec_inputs, a.attn),
         dec_enc_attn |-> Let(out, c.attn),
         calls |-> <<a.call, c.call>>]))))))))

DecoderLayer_forward(layer, dec_inputs, enc_outputs, dec_self_attn_mask, dec_enc_attn_mask) ==
    With(Var(dec_inputs), LAMBDA x :
    With(MultiHeadAttention_forward(layer.dec_self_attn, "dec_self_attn",
                                    x, x, x, dec_self_attn_mask), LAMBDA a :
    With(Let(dec_inputs, AddNorm(x, a.out)), LAMBDA out :
    With(Var(out), LAMBDA o :
    With(MultiHeadAttention_forward(layer.dec_enc_attn, "dec_enc_attn",
                                    o, enc_outputs, enc_outputs,
                                    dec_enc_attn_mask), LAMBDA c :
    With(Let(out, AddNorm(o, c.out)), LAMBDA out2 :
    With(Var(out2), LAMBDA o2 :
    With(PoswiseFeedForwardNet_forward(layer.pos_ffn, o2), LAMBDA out3 :
        [out |-> Let(out2, AddNorm(o2, out3)),
         dec_self_attn |-> Let(dec_inputs, a.attn),
         dec_enc_attn |-> Let(out, c.attn),
         calls |-> <<a.call, c.call>>]))))))))

(***************************************************************************)
(* Encoder, Decoder                                                        *)
(***************************************************************************)
\* for _ in range(n_layers): the layers built so far and the generator.
RECURSIVE BuildEncoderLayers(_, _, _, _)
BuildEncoderLayers(n, attn_type, seed, acc) ==
    IF n = 0 THEN acc
    ELSE With(EncoderLayer_init(acc.rng, attn_type, seed), LAMBDA l :
         With([layers |-> Append(acc.layers, l.obj), rng |-> l.rng], LAMBDA nxt :
              BuildEncoderLayers(n - 1, attn_type, seed, nxt)))

Encoder_init(r, n_layers, attn_type, seed) ==
    With([layers |-> <<>>, rng |-> r], LAMBDA acc0 :
    With(BuildEncoderLayers(n_layers, attn_type, seed, acc0), LAMBDA built :
        [obj |-> [cls |-> "Encoder", attn_type |-> attn_type,
                  pos_emb |-> PositionalEncoding_init(DModel, max_len),
                  n_layers |-> n_layers, layers |-> built.layers],
         rng |-> built.rng]))

\* for layer in self.layers, from layer i on.  trace lists the steps in
\* execution order, runs the input and output of every executed layer,
\* calls the attention calls.
RECURSIVE EncoderLoop(_, _, _, _)
EncoderLoop(layers, i, enc_self_attn_mask, acc) ==
    IF i > Len(layers) THEN acc
    ELSE With(EncoderLayer_forward(layers[i], acc.out, enc_self_attn_mask), LAMBDA f :
         With([err |-> "", out |-> f.out,
               attns |-> Append(acc.attns, f.attn),
               calls |-> acc.calls \o f.calls,
               runs |-> Append(acc.runs, [layer |-> layers[i], inp |-> acc.out,
                                          out |-> f.out]),
               trace |-> Append(acc.trace, "enc.layer")], LAMBDA nxt :
              EncoderLoop(layers, i + 1, enc_self_attn_mask, nxt)))

Encoder_forward(enc, enc_input) ==
    With(PositionalEncoding_forward(enc.pos_emb, enc_input), LAMBDA pe :
    With([err |-> pe.err, out |-> pe.out, attns |-> <<>>, calls |-> <<>>,
          runs |-> <<>>, trace |-> <<"enc.pos_emb">>], LAMBDA acc0 :
        IF pe.err # "" THEN acc0
        ELSE EncoderLoop(enc.layers, 1, NoneT, acc0)))

RECURSIVE BuildDecoderLayers(_, _, _, _)
BuildDecoderLayers(n, attn_type, seed, acc) ==
    IF n = 0 THEN acc
    ELSE With(DecoderLayer_init(acc.rng, attn_type, seed), LAMBDA l :
         With([layers |-> Append(acc.layers, l.obj), rng |-> l.rng], LAMBDA nxt :
              BuildDecoderLayers(n - 1, attn_type, seed, nxt)))

Decoder_init(r, n_layers, attn_type, seed) ==
    With([layers |-> <<>>, rng |-> r], LAMBDA acc0 :
    With(BuildDecoderLayers(n_layers, attn_type, seed, acc0), LAMBDA built :
        [obj |-> [cls |-> "Decoder", attn_type |-> attn_type,
                  pos_emb |-> PositionalEncoding_init(DModel, max_len),
                  n_layers |-> n_layers, layers |-> built.layers],
         rng |-> built.rng]))

\* for layer in self.layers, from layer i on.  attns holds the pairs
\* (dec_self_attn, dec_enc_attn) of the two lists.
RECURSIVE DecoderLoop(_, _, _, _, _)
DecoderLoop(layers, i, enc_outputs, dec_self_attn_subsequent_mask, acc) ==
    IF i > Len(layers) THEN acc
    ELSE With(DecoderLayer_forward(layers[i], acc.out, enc_outputs,
                                   dec_self_attn_subsequent_mask, NoneT), LAMBDA f :
         With([err |-> "", out |-> f.out,
               attns |-> Append(acc.attns, <<f.dec_self_attn, f.dec_enc_attn>>),
               calls |-> acc.calls \o f.calls,
               runs |-> Append(acc.runs, [layer |-> layers[i], inp |-> acc.out,
                                          out |-> f.out]),
               trace |-> Append(acc.trace, "dec.layer")], LAMBDA nxt :
              DecoderLoop(layers, i + 1, enc_outputs,
                          dec_self_attn_subsequent_mask, nxt)))

Decoder_forward(dec, dec_inputs, enc_outputs) ==
    With(PositionalEncoding_forward(dec.pos_emb, dec_inputs), LAMBDA pe :
        IF pe.err # ""
        THEN [err |-> pe.err, out |-> pe.out, attns |-> <<>>, calls |-> <<>>,
              runs |-> <<>>, trace |-> <<"dec.pos_emb">>]
        ELSE With(get_attn_subsequent_mask(dec_inputs), LAMBDA mask :
             With([err |-> "", out |-> pe.out, attns |-> <<>>, calls |-> <<>>,
                   runs |-> <<>>,
                   trace |-> <<"dec.pos_emb", "dec.get_attn_subsequent_mask">>],
                  LAMBDA acc0 :
                  DecoderLoop(dec.layers, 1, enc_outputs, mask, acc0))))

(***************************************************************************)
(* process_model                                                           *)
(***************************************************************************)
Zero == <<"int", 0>>

process_model_init(r, gp, d) ==
    [obj |-> [cls |-> "process_model", w |-> Draw(r), gp |-> gp, d |-> d],
     rng |-> Adv(r, 1)]

\* x.add_(e) adds in place: self is the value the tensor x holds after the
\* call, ret the returned tensor, which is x itself.
add_(x, e) ==
    [self |-> Tensor(x.shape, <<"add", x.val, e>>),
     ret |-> Tensor(x.shape, <<"add", x.val, e>>)]

\* Python's seq[-p:] on a sequence of n rows, p >= 0: the first row kept.
TailStart(n, p) == IF p = 0 THEN 0 ELSE Max(n - p, 0)

\* The first block guarded by "target is not None": the target's GP.
target_gp(pm, target) ==
    IF target.cls # "None"
    THEN [s_len |-> target.shape[2],
          mean_t |-> <<"dist.mean", <<"mean_module_t", pm.w, target.val>>,
                       <<"covar_module_t", pm.w, target.val>>>>,
          co_var_t |-> <<"dist.variance", <<"mean_module_t", pm.w, target.val>>,
                         <<"covar_module_t", pm.w, target.val>>>>,
          evals |-> <<"mean_module_t", "covar_module_t">>]
    ELSE [s_len |-> 0, mean_t |-> <<"unbound">>, co_var_t |-> <<"unbound">>,
          evals |-> <<>>]

normal_kl(mean1, logvar1, mean2, logvar2) ==
    <<"normal_kl", mean1, logvar1, mean2, logvar2>>

\* The last block guarded by "target is not None": the KL term, else 0.
\* The variant that computes the KL term whether or not a target is given.
kl_block_unguarded(target, tg, n, mu, sigma) ==
    [kl_loss |-> <<"mean", normal_kl(<<"mean", tg.mean_t>>, <<"mean", tg.co_var_t>>,
                                     <<"mean", <<"rows", TailStart(n, tg.s_len), n, mu>>>>,
                                     <<"mean", <<"rows", TailStart(n, tg.s_len), n,
                                                 sigma>>>>)>>,
     evals |-> <<"normal_kl">>]

kl_block(target, tg, n, mu, sigma) ==
    IF target.cls # "None"
    THEN [kl_loss |-> <<"mean",
                        normal_kl(<<"mean", tg.mean_t>>, <<"mean", tg.co_var_t>>,
                                  <<"mean", <<"rows", TailStart(n, tg.s_len), n, mu>>>>,
                                  <<"mean", <<"rows", TailStart(n, tg.s_len), n,
                                              sigma>>>>)>>,
          evals |-> <<"normal_kl">>]
    ELSE [kl_loss |-> Zero, evals |-> <<>>]

\* The noise added to x (written over the bound operand x0).
Eps(pm, x0, noise1) ==
    IF pm.gp
    THEN <<"add", <<"gp_proj_mean", pm.w, <<"dist.mean", x0.val>>>>,
                  <<"mul", <<"gp_proj_var", pm.w, <<"dist.variance", x0.val>>>>,
                           noise1, <<"0.1">>>>>>
    ELSE <<"mul", noise1, <<"0.1">>>>

\* nn.BatchNorm1d of the encoder stack, on input (B, d, L), in the training
\* mode a module is constructed in: one value per channel is an error.
BatchNorm1d_err(shape) ==
    IF shape[1] * shape[2] = 1 THEN "ValueError" ELSE ""

\* forward(x, target): x_in is x on entry, residual the value the operand
\* x of the final y + x holds, which is the value x holds after add_.  When
\* the encoder stack raises, the first noise is drawn and added already.
process_model_forward(pm, r, x, target) ==
    With(<<"randn_like", Draw(r)>>, LAMBDA noise1 :
    With(target_gp(pm, target), LAMBDA tg :
    With(add_(Var(x), Eps(pm, Var(x), noise1)), LAMBDA added :
    With(Let(x, added.self), LAMBDA x_now :
    With(Let(x, added.ret), LAMBDA x_noisy :
    With(<<"musig", pm.w, <<"encoder", pm.w, Var(x_noisy).val>>>>, LAMBDA musig :
    With(<<"cols", 0, pm.d, musig>>, LAMBDA mu :
    With(<<"cols", pm.d, 2 * pm.d, musig>>, LAMBDA sigma :
    With(<<"randn_like", Draw(Adv(r, 1))>>, LAMBDA noise2 :
    With(<<"add", mu, <<"mul", <<"exp", <<"mul", sigma, <<"0.5">>>>>>, noise2>>>>,
         LAMBDA z :
    With(Let(x_noisy, Tensor(x.shape, <<"decoder", pm.w, z>>)), LAMBDA y :
    With(kl_block(target, tg, x.shape[2], mu, sigma), LAMBDA kl :
        [err |-> BatchNorm1d_err(x.shape),
         output |-> Tensor(x.shape, <<"norm", <<"add", y.val, x_now.val>>>>),
         kl_loss |-> IF kl.kl_loss = Zero THEN Zero
                     ELSE <<"let", x_noisy.val, kl.kl_loss>>,
         rng |-> IF BatchNorm1d_err(x.shape) = "" THEN Adv(r, 2) ELSE Adv(r, 1),
         x_in |-> x, residual |-> x_now, y |-> y,
         noise |-> <<noise1, noise2>>,
         evals |-> <<"randn_like">> \o tg.evals
                   \o (IF pm.gp THEN <<"mean_module", "covar_module">> ELSE <<>>)
                   \o <<"add_", "encoder", "musig", "randn_like", "decoder", "norm">>
                   \o kl.evals]))))))))))))

(***************************************************************************)
(* Transformer                                                             *)
(***************************************************************************)
\* The layer count __init__ passes to the Decoder.
\* The variant that hands the configured n_layers to the Decoder as well.
decoder_n_layers_configured(n_layers) == n_layers

decoder_n_layers(n_layers) == 1

Linear_init(r) == [obj |-> [cls |-> "Linear", w |-> Draw(r)], rng |-> Adv(r, 1)]

\* nn.Linear on the last axis.
Linear(lin, name, out_features, x) ==
    Tensor(<<x.shape[1], x.shape[2], out_features>>, <<name, lin.w, x.val>>)

\* x[:, -p:, :]
\* The variant that keeps the first p rows, x[:, :p, :].
LastRows_head(x, p) ==
    Tensor(<<x.shape[1], Min(p, x.shape[2]), x.shape[3]>>,
           <<"rows", 0, Min(p, x.shape[2]), x.val>>)

LastRows(x, p) ==
    Tensor(<<x.shape[1], x.shape[2] - TailStart(x.shape[2], p), x.shape[3]>>,
           <<"rows", TailStart(x.shape[2], p), x.shape[2], x.val>>)

Transformer_init(r, cfg) ==
    With(manual_seed(r, cfg.seed), LAMBDA r0 :
    With(Encoder_init(r0, cfg.n_layers, cfg.attn_type, cfg.seed), LAMBDA e :
    With(Decoder_init(e.rng, decoder_n_layers(cfg.n_layers), cfg.attn_type,
                      cfg.seed), LAMBDA d :
    With(Linear_init(d.rng), LAMBDA ee :
    With(Linear_init(ee.rng), LAMBDA de :
    With(Linear_init(de.rng), LAMBDA pr :
    With(process_model_init(pr.rng, cfg.gp, DModel), LAMBDA pm :
        [obj |-> [cls |-> "Transformer", attn_type |-> cfg.attn_type,
                  seed |-> cfg.seed, n_layers |-> cfg.n_layers,
                  encoder |-> e.obj, decoder |-> d.obj,
                  enc_embedding |-> ee.obj, dec_embedding |-> de.obj,
                  projection |-> pr.obj, p_model |-> cfg.p_model,
                  process |-> IF cfg.p_model THEN pm.obj ELSE NoneT,
                  pred_len |-> cfg.pred_len],
         rng |-> IF cfg.p_model THEN pm.rng ELSE pr.rng])))))))

\* The draws __init__ takes from the generator it has just seeded.
NumDraws(model) ==
    2 * Len(model.encoder.layers) + 3 * Len(model.decoder.layers) + 3
    + (IF model.p_model THEN 1 ELSE 0)

\* What forward returns: the pair under p_model, else the tensor alone.
\* The variant that returns the pair whatever p_model is.
Return_pair(p_model, outputs, kl_loss) ==
    [kind |-> "tuple", outputs |-> outputs, kl_loss |-> kl_loss]

Return(p_model, outputs, kl_loss) ==
    IF p_model
    THEN [kind |-> "tuple", outputs |-> outputs, kl_loss |-> kl_loss]
    ELSE [kind |-> "tensor", outputs |-> outputs, kl_loss |-> <<"absent">>]

\* A forward that raises returns nothing.
Raise(err, r, args, trace) ==
    [cls |-> "Call", fn |-> "Transformer.forward", err |-> err, kind |-> "raise",
     outputs |-> NoneT, kl_loss |-> <<"absent">>, args |-> args, rng_in |-> r,
     trace |-> trace, calls |-> <<>>, enc_runs |-> <<>>, dec_runs |-> <<>>,
     enc_self_attns |-> <<>>, dec_attns |-> <<>>, proc |-> NoneT, rng |-> r]

\* The record of a forward that returns: e and d are the results of the
\* stacks, p that of the process model (None without it), sliced the input
\* of the projection.
Returned(model, r, args, e, d, p, sliced) ==
    With(Return(model.p_model,
                Linear(model.projection, "projection", 1, sliced),
                IF model.p_model THEN p.kl_loss ELSE <<"absent">>), LAMBDA result :
        [cls |-> "Call", fn |-> "Transformer.forward", err |-> "",
         kind |-> result.kind, outputs |-> result.outputs,
         kl_loss |-> result.kl_loss, args |-> args, rng_in |-> r,
         trace |-> e.trace \o d.trace
                   \o (IF model.p_model THEN <<"process">> ELSE <<>>)
                   \o <<"projection">>,
         calls |-> e.calls \o d.calls,
         enc_runs |-> e.runs, dec_runs |-> d.runs,
         enc_self_attns |-> e.attns, dec_attns |-> d.attns,
         proc |-> p,
         rng |-> IF model.p_model THEN p.rng ELSE r])

Transformer_forward(model, r, enc_inputs, dec_inputs, target) ==
    With([enc_inputs |-> enc_inputs, dec_inputs |-> dec_inputs, target |-> target],
         LAMBDA args :
    With(Linear(model.enc_embedding, "enc_embedding", DModel, enc_inputs),
         LAMBDA enc_emb :
    With(Linear(model.dec_embedding, "dec_embedding", DModel, dec_inputs),
         LAMBDA dec_emb :
    With(Encoder_forward(model.encoder, enc_emb), LAMBDA e :
        IF e.err # "" THEN Raise(e.err, r, args, e.trace)
        ELSE With(Decoder_forward(model.decoder, dec_emb, e.out), LAMBDA d :
            IF d.err # "" THEN Raise(d.err, r, args, e.trace \o d.trace)
            ELSE IF model.p_model
            THEN With(process_model_forward(model.process, r, d.out, target),
                      LAMBDA p :
                 IF p.err # ""
                 THEN [Raise(p.err, r, args, e.trace \o d.trace \o <<"process">>)
                       EXCEPT !.rng = p.rng]
                 ELSE With(LastRows(p.output, model.pred_len), LAMBDA sliced :
                      Returned(model, r, args, e, d, [cls |-> "process"] @@ p,
                               sliced)))
            ELSE With(LastRows(d.out, model.pred_len), LAMBDA sliced :
                      Returned(model, r, args, e, d, NoneT, sliced)))))))

(***************************************************************************)
(* The calls a program makes, and their arguments.                         *)
(***************************************************************************)
Seeds == 1..MaxSeed

\* Time lengths: the short ones, the table's length and one more.
Lens == (1..MaxL) \cup {max_len, max_len + 1}

\* The lengths the stacks are run on.
StackLens == (1..MaxL) \cup {max_len + 1}

Input(name, B, n, d, c) == Tensor(<<B, n, d>>, <<name, c>>)

\* The values of pred_len, and the target lengths (0: no target is passed).
PredLens == {1, 2}

TargetLens == {0, 1}

\* The configurations of the Transformers of Spec and of SpecSeed.
Cfgs ==
    [attn_type : Tags, seed : {1}, n_layers : 1..MaxLayers,
     p_model : BOOLEAN, gp : BOOLEAN, pred_len : PredLens]
    \ [attn_type : Tags, seed : {1}, n_layers : 1..MaxLayers,
       p_model : {FALSE}, gp : {TRUE}, pred_len : PredLens]

SeedCfgs ==
    [attn_type : {"basic_attn", "autoformer"}, seed : Seeds, n_layers : {1},
     p_model : BOOLEAN, gp : {FALSE}, pred_len : {1}]

\* The arguments of Transformer.forward: batch, lengths, the target's
\* length (0: no target is passed) and which data the tensors hold.
Args ==
    [B : 1..MaxB, enc_len : {MaxL + 1}, dec_len : StackLens,
     tlen : TargetLens, content : {1}]

SeedArgs ==
    [B : {2}, enc_len : {1}, dec_len : {1}, tlen : {0}, content : {1, 2}]

\* Transformer(...): seeds the global generators and builds the model, the
\* m-th one the program constructs.  No result of an earlier forward is kept
\* across a construction.
NewTransformer(m, cfg) ==
    /\ models[m].cls = "None"
    /\ \A i \in DOMAIN models : i < m => models[i].cls # "None"
    /\ \E t \in {Transformer_init(rng, cfg)} :
           /\ models' = [models EXCEPT ![m] = t.obj]
           /\ rng' = t.rng
    /\ last' = [i \in DOMAIN last |-> NoneT]
    /\ UNCHANGED <<obj, ret>>

\* model(enc_inputs, dec_inputs, target).  The generator's position is capped
\* MaxDraws beyond what constructing the model takes from it.
CallForward(m, a) ==
    /\ models[m].cls = "Transformer"
    /\ rng.torch.pos < NumDraws(models[m]) + MaxDraws
    /\ a.tlen <= a.dec_len
    /\ \E res \in {Transformer_forward(
                      models[m], rng,
                      Input("enc_inputs", a.B, a.enc_len, 1, a.content),
                      Input("dec_inputs", a.B, a.dec_len, 1, a.content),
                      IF a.tlen = 0 THEN NoneT
                      ELSE Input("target", a.B, a.tlen, 1, a.content))} :
           /\ last' = [last EXCEPT ![m] = res]
           /\ rng' = res.rng
    /\ UNCHANGED <<models, obj, ret>>

\* PositionalEncoding(d_hid, device, max_len)
NewPositionalEncoding(maxlen) ==
    /\ obj' = PositionalEncoding_init(DModel, maxlen)
    /\ ret' = NoneT
    /\ UNCHANGED <<rng, models, last>>

CallPositionalEncoding(B, T) ==
    /\ obj.cls = "PositionalEncoding"
    /\ \E f \in {PositionalEncoding_forward(obj, Input("X", B, T, DModel, 1))} :
           ret' = [cls |-> "Call", fn |-> "PositionalEncoding.forward",
                   args |-> Input("X", B, T, DModel, 1),
                   err |-> f.err, out |-> f.out]
    /\ UNCHANGED <<rng, models, last, obj>>

\* Encoder(...) and Decoder(...) on their own draw their parameters from the
\* generator as it stands.
NewEncoder(n_layers, attn_type, seed) ==
    /\ \E e \in {Encoder_init(rng, n_layers, attn_type, seed)} :
           /\ e.rng.torch.pos <= MaxPos
           /\ obj' = e.obj
           /\ rng' = e.rng
    /\ ret' = NoneT
    /\ UNCHANGED <<models, last>>

CallEncoder(B, T) ==
    /\ obj.cls = "Encoder"
    /\ \E X \in {Input("enc_input", B, T, DModel, 1)} :
       \E f \in {Encoder_forward(obj, X)} :
           ret' = [cls |-> "Call", fn |-> "Encoder.forward", args |-> X] @@ f
    /\ UNCHANGED <<rng, models, last, obj>>

NewDecoder(n_layers, attn_type, seed) ==
    /\ \E d \in {Decoder_init(rng, n_layers, attn_type, seed)} :
           /\ d.rng.torch.pos <= MaxPos
           /\ obj' = d.obj
           /\ rng' = d.rng
    /\ ret' = NoneT
    /\ UNCHANGED <<models, last>>

CallDecoder(B, T, S) ==
    /\ obj.cls = "Decoder"
    /\ \E X \in {Input("dec_inputs", B, T, DModel, 1)} :
       \E f \in {Decoder_forward(obj, X, Input("enc_outputs", B, S, DModel, 1))} :
           ret' = [cls |-> "Call", fn |-> "Decoder.forward", args |-> X] @@ f
    /\ UNCHANGED <<rng, models, last, obj>>

(***************************************************************************)
(* Specifications.                                                         *)
(***************************************************************************)
InitIds(ids) ==
    /\ rng = RngInit
    /\ models = [i \in ids |-> NoneT]
    /\ last = [i \in ids |-> NoneT]
    /\ obj = NoneT
    /\ ret = NoneT

\* One Transformer, every configuration.
Init == InitIds({1})

Next ==
    \/ \E cfg \in Cfgs : NewTransformer(1, cfg)
    \/ \E a \in Args : CallForward(1, a)

Spec == Init /\ [][Next]_vars

\* Two Transformers side by side.
InitSeed == InitIds({1, 2})

NextSeed ==
    \/ \E m \in {1, 2}, cfg \in SeedCfgs : NewTransformer(m, cfg)
    \/ \E m \in {1, 2}, a \in SeedArgs : CallForward(m, a)

SpecSeed == InitSeed /\ [][NextSeed]_vars

\* The components on their own.
PartTags == {"basic_attn", "informer"}

NextParts ==
    \/ \E n \in (1..MaxTable) \cup {max_len} : NewPositionalEncoding(n)
    \/ \E B \in 1..MaxB, T \in Lens : CallPositionalEncoding(B, T)
    \/ \E n \in 1..MaxLayers, t \in PartTags : NewEncoder(n, t, 1)
    \/ \E B \in 1..MaxB, T \in StackLens : CallEncoder(B, T)
    \/ \E n \in 1..MaxLayers, t \in PartTags : NewDecoder(n, t, 1)
    \/ \E B \in 1..MaxB, T \in StackLens, S \in 1..MaxL : CallDecoder(B, T, S)

SpecParts == Init /\ [][NextParts]_vars

(***************************************************************************)
(* Properties.                                                             *)
(***************************************************************************)
Ids == DOMAIN last

\* Model m's forward was called since the last construction and returned.
Returned_ok(m) == last[m].cls = "Call" /\ last[m].err = ""

Count(seq, x) == Cardinality({i \in DOMAIN seq : seq[i] = x})

Repeat(x, n) == [i \in 1..n |-> x]

\* The constructor arguments a model was built with.
Config(model) ==
    [attn_type |-> model.attn_type, seed |-> model.seed,
     n_layers |-> model.n_layers, p_model |-> model.p_model,
     gp |-> IF model.p_model THEN model.process.gp ELSE FALSE,
     pred_len |-> model.pred_len]

\* C1: the mask every decoder self-attention receives has the shape
\* B x T x T of the decoder input, and its entry (i, j) is 1 exactly when
\* j > i and 0 otherwise, for every batch element.
C1_CausalMask ==
    \A m \in Ids : Returned_ok(m) =>
        \A k \in DOMAIN last[m].calls :
            last[m].calls[k].site = "dec_self_attn" =>
                LET mask == last[m].calls[k].mask
                    B == last[m].args.dec_inputs.shape[1]
                    T == last[m].args.dec_inputs.shape[2]
                IN  /\ mask.cls = "Tensor"
                    /\ mask.shape = <<B, T, T>>
                    /\ DOMAIN mask.val = 1..B
                    /\ \A b \in 1..B :
                        /\ DOMAIN mask.val[b] = 1..T
                        /\ \A i \in 1..T :
                            /\ DOMAIN mask.val[b][i] = 1..T
                            /\ \A j \in 1..T :
                                mask.val[b][i][j] = IF j > i THEN 1 ELSE 0

C1_Witness ==
    \E m \in Ids :
        /\ Returned_ok(m)
        /\ \E k \in DOMAIN last[m].calls :
            /\ last[m].calls[k].site = "dec_self_attn"
            /\ last[m].calls[k].mask.shape = <<MaxB, MaxL, MaxL>>

\* C2: the output of process_model.forward is LayerNorm(y + x) with x the
\* value the input had on entry, in GP mode and in non-GP mode.
C2_ResidualIsEntryValue ==
    \A m \in Ids : (Returned_ok(m) /\ last[m].proc.cls = "process") =>
        last[m].proc.output.val =
            <<"norm", <<"add", last[m].proc.y.val, last[m].proc.x_in.val>>>>

\* C3: a Transformer is never constructed with a tag outside the supported
\* set, and no forward runs an attention strategy for such a tag.
C3_UnknownTagRejected ==
    /\ \A m \in Ids : models[m].cls = "Transformer" =>
           models[m].attn_type \in SupportedTags
    /\ \A m \in Ids : Returned_ok(m) =>
           \A k \in DOMAIN last[m].calls :
               last[m].calls[k].attn_type \in SupportedTags

\* Two models of one configuration, both run on the same arguments since the
\* later of them was constructed.
SamePair(m1, m2) ==
    /\ m1 # m2
    /\ Returned_ok(m1) /\ Returned_ok(m2)
    /\ Config(models[m1]) = Config(models[m2])
    /\ last[m1].args = last[m2].args

\* C4: two models of the same seed and configuration, constructed one after
\* the other and then each run on identical inputs, return identical
\* outputs, in every configuration, the process model enabled included.
C4_SameSeedSameOutput ==
    \A m1, m2 \in Ids : SamePair(m1, m2) =>
        last[m1].outputs = last[m2].outputs

\* C5: forward returns a pair exactly when the model was constructed with
\* the process-model flag, whether or not a target is passed.
C5_ReturnArity ==
    \A m \in Ids : Returned_ok(m) =>
        /\ models[m].p_model => last[m].kind = "tuple"
        /\ ~models[m].p_model =>
               (last[m].kind = "tensor" /\ last[m].kl_loss = <<"absent">>)

C5_Witness ==
    \E m \in Ids :
        /\ Returned_ok(m)
        /\ ~models[m].p_model
        /\ last[m].args.target.cls = "Tensor"
        /\ last[m].kind = "tensor"

\* C6: without a target process_model.forward returns kl_loss 0 and
\* evaluates neither the target's GP nor the KL formula, in GP mode and in
\* non-GP mode; the KL formula is evaluated only when a target is passed.
C6_NoTargetZeroKL ==
    \A m \in Ids : (Returned_ok(m) /\ last[m].proc.cls = "process") =>
        /\ last[m].args.target.cls = "None" =>
               /\ last[m].proc.kl_loss = Zero
               /\ last[m].kl_loss = Zero
               /\ \A i \in DOMAIN last[m].proc.evals :
                      last[m].proc.evals[i] \notin
                          {"mean_module_t", "covar_module_t", "normal_kl"}
        /\ Count(last[m].proc.evals, "normal_kl") > 0 =>
               last[m].args.target.cls = "Tensor"

C6_Witness ==
    \E m \in Ids :
        /\ Returned_ok(m)
        /\ last[m].proc.cls = "process"
        /\ models[m].process.gp
        /\ last[m].args.target.cls = "None"
        /\ last[m].kl_loss = Zero

IsPECall == ret.cls = "Call" /\ ret.fn = "PositionalEncoding.forward"

\* C8: a time length above max_len fails (the claim names an index error;
\* any error counts here) and returns nothing; up to max_len forward
\* succeeds and adds the first T rows of the table.
C8_OverlongFails ==
    IsPECall =>
        LET T == ret.args.shape[2]
        IN  /\ T > obj.max_len => (ret.err # "" /\ ret.out = NoneT)
            /\ T <= obj.max_len =>
                   /\ ret.err = ""
                   /\ ret.out = Tensor(ret.args.shape,
                                       <<"add", ret.args.val, <<"P", 0, T>>>>)

\* C9: a Decoder.forward computes the mask once, every decoder
\* self-attention receives that mask, of the decoder input's B x T x T, and
\* every cross-attention and every encoder self-attention receives None.
C9_MaskOnceSelfOnly ==
    /\ (ret.cls = "Call" /\ ret.fn = "Decoder.forward" /\ ret.err = "") =>
        /\ Count(ret.trace, "dec.get_attn_subsequent_mask") = 1
        /\ Len(ret.calls) = 2 * Len(obj.layers)
        /\ \A k \in DOMAIN ret.calls :
            /\ ret.calls[k].site \in {"dec_self_attn", "dec_enc_attn"}
            /\ ret.calls[k].site = "dec_self_attn" =>
                   /\ ret.calls[k].mask.cls = "Tensor"
                   /\ ret.calls[k].mask.shape =
                          <<ret.args.shape[1], ret.args.shape[2], ret.args.shape[2]>>
                   /\ ret.calls[k].mask = ret.calls[1].mask
            /\ ret.calls[k].site = "dec_enc_attn" => ret.calls[k].mask = NoneT
    /\ (ret.cls = "Call" /\ ret.fn = "Encoder.forward" /\ ret.err = "") =>
        /\ Len(ret.calls) = Len(obj.layers)
        /\ \A k \in DOMAIN ret.calls :
            /\ ret.calls[k].site = "enc_self_attn"
            /\ ret.calls[k].mask = NoneT

C9_Witness ==
    /\ ret.cls = "Call" /\ ret.fn = "Decoder.forward" /\ ret.err = ""
    /\ Len(obj.layers) >= 2
    /\ Len(ret.calls) = 2 * Len(obj.layers)
    /\ ret.calls[3].mask = ret.calls[1].mask

\* C10: a forward of a model with n_layers = N adds the positional encoding
\* once per stack, runs the N encoder layers and one decoder layer in the
\* order they were constructed, feeds every layer the output of the one
\* before it, and returns one attention entry per executed layer, in order.
C10_LayerOrder ==
    \A m \in Ids : Returned_ok(m) =>
        LET N == models[m].n_layers
            enc == models[m].encoder
            dec == models[m].decoder
            r == last[m]
        IN  /\ r.trace = <<"enc.pos_emb">> \o Repeat("enc.layer", N)
                         \o <<"dec.pos_emb", "dec.get_attn_subsequent_mask",
                              "dec.layer">>
                         \o (IF models[m].p_model THEN <<"process">> ELSE <<>>)
                         \o <<"projection">>
            /\ Len(enc.layers) = N /\ Len(r.enc_runs) = N
            /\ Len(r.dec_runs) = 1
            /\ \A i \in 1..N :
                /\ r.enc_runs[i].layer = enc.layers[i]
                /\ i > 1 => r.enc_runs[i].inp = r.enc_runs[i - 1].out
            /\ r.enc_runs[1].inp.val[1] = "add"
            /\ r.dec_runs[1].layer = dec.layers[1]
            /\ Len(r.enc_self_attns) = N /\ Len(r.dec_attns) = 1
            /\ \A i \in 1..N :
                r.enc_self_attns[i] =
                    EncoderLayer_forward(enc.layers[i], r.enc_runs[i].inp, NoneT).attn

C10_Witness ==
    \E m \in Ids :
        /\ Returned_ok(m)
        /\ models[m].n_layers >= 2
        /\ Len(last[m].enc_runs) = models[m].n_layers
        /\ Len(last[m].dec_runs) = 1

====
